---- MODULE Spec2Model ----
(***************************************************************************)
(* Authorization, audit and secure-backup core of the Urban Mobility       *)
(* backend (src/urban_mobility: auth.py, db.py, backup.py, encryption.py,  *)
(* input_validation.py).                                                   *)
(*                                                                         *)
(* Strings typed by a caller (usernames, passwords) are sequences of       *)
(* one-character strings, so that length, character classes and lower()   *)
(* are computed as the code computes them.  Fixed message texts are TLA+   *)
(* strings.  The clock `now` counts seconds.  Storage operations do not    *)
(* fail, except in the one action that names the step that fails.         *)
(***************************************************************************)
EXTENDS Integers, Sequences, FiniteSets, TLC

VARIABLES
    users,            \* data.db, table users: rows in rowid (insertion) order
    codes,            \* data.db, table restore_codes: code -> row
    logs,             \* data.db, table logs: rows in id order
    fs,               \* data/fernet.key, data/salt.key, logs.db, data/fernet.key.backup
    backups,          \* backups/: backup name (its creation second) -> archive
    fernet,           \* encryption.py: the process-wide cipher's key
    failed_attempts,  \* auth.py: the module-level dict username -> timestamps
    now,              \* wall clock, in seconds
    spent,            \* history: codes consumed by a successful restore or revoked
    ret               \* the call made last and what it returned

vars == <<users, codes, logs, fs, backups, fernet, failed_attempts, now, spent, ret>>

----------------------------------------------------------------------------
(* Bounds of the model *)

MaxLog == 5            \* rows of the logs table, login runs
MaxUsers == 2          \* rows of the users table
MaxBackups == 2        \* archives in backups/
MaxHalfWindows == 3    \* the clock runs to MaxHalfWindows half detection windows

----------------------------------------------------------------------------
(* Characters and strings *)

UpperSeq == <<"A","B","C","D","E","F","G","H","I","J","K","L","M",
              "N","O","P","Q","R","S","T","U","V","W","X","Y","Z">>
LowerSeq == <<"a","b","c","d","e","f","g","h","i","j","k","l","m",
              "n","o","p","q","r","s","t","u","v","w","x","y","z">>
Uppercase == {UpperSeq[i] : i \in DOMAIN UpperSeq}
Lowercase == {LowerSeq[i] : i \in DOMAIN LowerSeq}
Letters == Uppercase \cup Lowercase
Digits == {"0","1","2","3","4","5","6","7","8","9"}
Specials == {"~","!","@","#","$","%","&","_","-","+","=","`","|","\\","(",")",
             "{","}","[","]",":",";","'","<",">",",",".","?","/"}

LowerChar(c) ==
    IF c \in Uppercase
    THEN LowerSeq[CHOOSE i \in DOMAIN UpperSeq : UpperSeq[i] = c]
    ELSE c

\* str.lower()
lower(s) == [i \in 1..Len(s) |-> LowerChar(s[i])]

\* The names and passwords the operations are exercised with.
jdoe1234 == <<"j","d","o","e","1","2","3","4">>
JDoe1234 == <<"J","D","o","e","1","2","3","4">>
sysadmin01 == <<"s","y","s","a","d","m","i","n","0","1">>
sysadmin02 == <<"s","y","s","a","d","m","i","n","0","2">>
super_admin_name == <<"s","u","p","e","r","_","a","d","m","i","n">>
bob == <<"b","o","b">>
Admin_123 == <<"A","d","m","i","n","_","1","2","3","?">>
GoodPass == <<"A","a","1","!","a","a","a","a","a","a","a","a">>
OtherPass == <<"B","b","2","?","b","b","b","b","b","b","b","b">>
WeakPass == <<"w","r","o","n","g","p","a","s","s">>
Empty == <<>>

SUPER_ADMIN == [username |-> super_admin_name, password |-> Admin_123, role |-> "super_admin"]

----------------------------------------------------------------------------
(* input_validation.py *)

\* a slip: one character more is allowed
validate_username_wide(username) ==
    /\ Len(username) >= 8
    /\ Len(username) <= 11
    /\ username[1] \in Letters \cup {"_"}
    /\ \A i \in 1..Len(username) : username[i] \in Letters \cup Digits \cup {"_", "'", "."}

\* a slip: the lower bound on the length is left out
validate_username_short(username) ==
    /\ Len(username) >= 1
    /\ Len(username) <= 10
    /\ username[1] \in Letters \cup {"_"}
    /\ \A i \in 1..Len(username) : username[i] \in Letters \cup Digits \cup {"_", "'", "."}

validate_username(username) ==
    /\ Len(username) >= 8
    /\ Len(username) <= 10
    /\ username[1] \in Letters \cup {"_"}
    /\ \A i \in 1..Len(username) : username[i] \in Letters \cup Digits \cup {"_", "'", "."}

\* a slip: only the length is looked at
validate_password_lax(password) ==
    /\ Len(password) >= 1
    /\ Len(password) <= 30

validate_password(password) ==
    /\ Len(password) >= 12
    /\ Len(password) <= 30
    /\ \E i \in 1..Len(password) : password[i] \in Lowercase
    /\ \E i \in 1..Len(password) : password[i] \in Uppercase
    /\ \E i \in 1..Len(password) : password[i] \in Digits
    /\ \E i \in 1..Len(password) : password[i] \in Specials

----------------------------------------------------------------------------
(* auth.py: the role tables *)

VALID_ROLES == {"super_admin", "system_admin", "service_engineer"}

\* a slip: a system_admin may create its own kind as well
can_create_user_peers(current_role, target_role) ==
    IF current_role = "super_admin" THEN TRUE
    ELSE IF current_role = "system_admin" THEN target_role # "super_admin"
    ELSE FALSE

can_create_user(current_role, target_role) ==
    IF current_role = "super_admin" THEN TRUE
    ELSE IF current_role = "system_admin" THEN target_role = "service_engineer"
    ELSE FALSE

\* a slip: every role may manage every account
can_manage_user_any(current_role, target_role) == TRUE

\* a slip: a system_admin may manage its peers
can_manage_user_peers(current_role, target_role) ==
    IF current_role = "super_admin" THEN TRUE
    ELSE IF current_role = "system_admin"
    THEN target_role \in {"service_engineer", "system_admin"}
    ELSE FALSE

can_manage_user(current_role, target_role) ==
    IF current_role = "super_admin" THEN TRUE
    ELSE IF current_role = "system_admin" THEN target_role = "service_engineer"
    ELSE FALSE

PERMISSIONS == {"manage_users", "manage_system_admins", "manage_service_engineers",
                "manage_travellers", "manage_scooters", "view_logs", "create_backup",
                "restore_backup", "generate_restore_codes", "revoke_restore_codes"}

\* a slip: the service_engineer may read the logs too
get_role_permissions_engineer_logs(role) ==
    IF role = "super_admin" THEN PERMISSIONS
    ELSE IF role = "system_admin"
         THEN {"manage_service_engineers", "manage_travellers", "manage_scooters",
               "view_logs", "create_backup", "restore_backup"}
    ELSE IF role = "service_engineer" THEN {"manage_scooters", "view_logs"}
    ELSE {}

\* the permissions a role's dict maps to True; an unknown role has the empty dict
get_role_permissions(role) ==
    IF role = "super_admin" THEN PERMISSIONS
    ELSE IF role = "system_admin"
         THEN {"manage_service_engineers", "manage_travellers", "manage_scooters",
               "view_logs", "create_backup", "restore_backup"}
    ELSE IF role = "service_engineer" THEN {"manage_scooters"}
    ELSE {}

has_permission(role, permission) == permission \in get_role_permissions(role)

----------------------------------------------------------------------------
(* encryption.py.  A stored text is either plain or a Fernet token; a token *)
(* carries its plaintext, the key it was made under and its random IV.      *)

P(s) == [enc |-> FALSE, pt |-> s, key |-> 0, iv |-> 0]

IVs == {1, 2}          \* the values the random IV of a token is drawn from

\* str.encode('utf-8').  An ASCII character is its own byte; the characters
\* beyond ASCII used here are U+00E9 (2 bytes), U+4E2D (3) and U+1F680 (4).
\* A lone surrogate (U+D800) has no encoding: encode raises.
Utf8Bytes ==
    [c \in {"U+00E9", "U+4E2D", "U+1F680"} |->
        CASE c = "U+00E9" -> <<"xC3", "xA9">>
          [] c = "U+4E2D" -> <<"xE4", "xB8", "xAD">>
          [] c = "U+1F680" -> <<"xF0", "x9F", "x9A", "x80">>]

Surrogates == {"U+D800"}

utf8_encodable(s) == \A i \in 1..Len(s) : s[i] \notin Surrogates

RECURSIVE utf8_encode(_)
utf8_encode(s) ==
    IF s = <<>> THEN <<>>
    ELSE (IF Head(s) \in DOMAIN Utf8Bytes THEN Utf8Bytes[Head(s)] ELSE <<Head(s)>>)
         \o utf8_encode(Tail(s))

\* the length of the sequence a lead byte opens
utf8_length(byte) ==
    CASE byte = "xC3" -> 2
      [] byte = "xE4" -> 3
      [] byte = "xF0" -> 4
      [] OTHER -> 1

\* a slip: every byte is taken for a character
RECURSIVE utf8_decode_bytewise(_)
utf8_decode_bytewise(b) ==
    IF b = <<>> THEN <<>> ELSE <<Head(b)>> \o utf8_decode_bytewise(Tail(b))

\* bytes.decode('utf-8') of bytes that encode('utf-8') made
RECURSIVE utf8_decode(_)
utf8_decode(b) ==
    IF b = <<>> THEN <<>>
    ELSE LET n == utf8_length(Head(b))
         IN IF n = 1 THEN <<Head(b)>> \o utf8_decode(Tail(b))
            ELSE <<CHOOSE c \in DOMAIN Utf8Bytes : Utf8Bytes[c] = SubSeq(b, 1, n)>>
                 \o utf8_decode(SubSeq(b, n + 1, Len(b)))

\* "" is returned as it is; a text that cannot be encoded is returned as it is
encrypt_data(data, iv) ==
    IF data = Empty THEN P(Empty)
    ELSE IF ~utf8_encodable(data) THEN P(data)
    ELSE [enc |-> TRUE, pt |-> utf8_encode(data), key |-> fernet, iv |-> iv]

\* a slip: the InvalidToken of a foreign value is not caught, "" stands for the raise
decrypt_data_raising(encrypted_data) ==
    IF encrypted_data = P(Empty) THEN P(Empty)
    ELSE IF encrypted_data.enc /\ encrypted_data.key = fernet
         THEN P(utf8_decode(encrypted_data.pt))
         ELSE P(Empty)

decrypt_data(encrypted_data) ==
    IF encrypted_data = P(Empty) THEN P(Empty)
    ELSE IF encrypted_data.enc /\ encrypted_data.key = fernet
         THEN P(utf8_decode(encrypted_data.pt))
         ELSE encrypted_data      \* decryption failed: the input is returned as is

\* str.lower() of a stored or decrypted text; a token's text is no username
text_lower(x) == IF x.enc THEN x ELSE P(lower(x.pt))

----------------------------------------------------------------------------
(* auth.py: password hashing.  bcrypt.checkpw re-hashes the password with *)
(* the salt kept in the hash and compares.                                *)

BcryptSalts == {1}

hash_with_salt(password, salt) == [salt |-> salt, digest |-> <<salt, password>>]

hash_password(password) ==
    hash_with_salt(password, CHOOSE s \in BcryptSalts : TRUE)

check_password(password, hashed) ==
    hash_with_salt(password, hashed.salt) = hashed

\* password.encode() raises UnicodeEncodeError for a text that has no encoding
check_password_raises(password) == ~utf8_encodable(password)

----------------------------------------------------------------------------
(* db.py: the users table *)

\* the index of the first row whose decrypted username matches, 0 for None
find_user_row(tbl, username) ==
    LET hits == {i \in 1..Len(tbl) :
                    text_lower(decrypt_data(tbl[i].username)) = text_lower(P(username))}
    IN IF hits = {} THEN 0 ELSE CHOOSE i \in hits : \A j \in hits : i <= j

get_user_by_username(tbl, username) == find_user_row(tbl, username)

\* INSERT INTO users: username is the PRIMARY KEY, compared as stored
add_user_ok(tbl, encrypted_username) ==
    \A i \in 1..Len(tbl) : tbl[i].username # encrypted_username

add_user(tbl, username, password_hash, role, first_name, last_name, iv) ==
    LET encrypted_username == encrypt_data(username, iv)
    IN IF add_user_ok(tbl, encrypted_username)
       THEN Append(tbl, [username |-> encrypted_username, password_hash |-> password_hash,
                         role |-> role, first_name |-> first_name, last_name |-> last_name])
       ELSE tbl

RemoveAt(s, i) == SubSeq(s, 1, i - 1) \o SubSeq(s, i + 1, Len(s))

delete_user(tbl, username) ==
    LET i == find_user_row(tbl, username)
    IN IF i = 0 THEN tbl ELSE RemoveAt(tbl, i)

reset_user_password(tbl, username, new_password_hash) ==
    LET i == find_user_row(tbl, username)
    IN IF i = 0 THEN tbl ELSE [tbl EXCEPT ![i].password_hash = new_password_hash]

----------------------------------------------------------------------------
(* db.py: the logs table.  description and additional_info are stored       *)
(* encrypted under the current key; additional_info is kept as its format   *)
(* and the values put into it.                                              *)

Info(fmt, texts, names, nums) == [fmt |-> fmt, texts |-> texts, names |-> names, nums |-> nums]
NoInfo == Info("", <<>>, <<>>, <<>>)

LogRow(description, username, additional_info, suspicious) ==
    [username |-> username, description |-> description,
     additional_info |-> additional_info, suspicious |-> suspicious, key |-> fernet]

log_event(tbl, description, username, additional_info, suspicious) ==
    Append(tbl, LogRow(description, username, additional_info, suspicious))

----------------------------------------------------------------------------
(* What a call returned *)

Ret(op, ok, role, username, msg) ==
    [op |-> op, ok |-> ok, role |-> role, username |-> username, msg |-> msg, args |-> <<>>]
RetOf(op, ok, args) ==
    [op |-> op, ok |-> ok, role |-> "", username |-> Empty, msg |-> "", args |-> args]
NoCall == Ret("none", FALSE, "", Empty, "")

\* the call did not return: the exception left it
Raise(op, exc) ==
    [op |-> op, ok |-> FALSE, role |-> "", username |-> Empty, msg |-> exc, args |-> <<"raise">>]
Raised == ret.args = <<"raise">>

----------------------------------------------------------------------------
(* auth.py: failed-attempt tracking and login *)

WINDOW_MINUTES == 15
WindowSeconds == WINDOW_MINUTES * 60
HalfWindow == WindowSeconds \div 2
SUSPICIOUS_COUNT == 3

\* a slip: stale entries are never dropped
prune_attempts_never(fa, username, t) == fa

\* is_suspicious_login_attempt, its effect on the dict: stale entries are dropped
prune_attempts(fa, username, t) ==
    IF username \in DOMAIN fa
    THEN [fa EXCEPT ![username] = SelectSeq(@, LAMBDA attempt_time : attempt_time > t - WindowSeconds)]
    ELSE fa

\* a slip: "more than 3", as the comment in the code words it
is_suspicious_more_than(fa, username, t) ==
    LET pruned == prune_attempts(fa, username, t)
    IN IF username \in DOMAIN pruned THEN Len(pruned[username]) > SUSPICIOUS_COUNT ELSE FALSE

\* is_suspicious_login_attempt, its result
is_suspicious_login_attempt(fa, username, t) ==
    LET pruned == prune_attempts(fa, username, t)
    IN IF username \in DOMAIN pruned THEN Len(pruned[username]) >= SUSPICIOUS_COUNT ELSE FALSE

\* a slip: a failure is recorded only for a username that has an account
record_failed_attempt_known(fa, username, t) ==
    IF find_user_row(users, username) = 0 THEN fa
    ELSE IF username \in DOMAIN fa
    THEN [fa EXCEPT ![username] = Append(@, t)]
    ELSE fa @@ (username :> <<t>>)

\* a slip: the history is kept under the lower-cased username
record_failed_attempt_folded(fa, username, t) ==
    IF lower(username) \in DOMAIN fa
    THEN [fa EXCEPT ![lower(username)] = Append(@, t)]
    ELSE fa @@ (lower(username) :> <<t>>)

record_failed_attempt(fa, username, t) ==
    IF username \in DOMAIN fa
    THEN [fa EXCEPT ![username] = Append(@, t)]
    ELSE fa @@ (username :> <<t>>)

\* a slip: the history is kept on a successful login
clear_attempts_kept(fa, username) == fa

clear_attempts(fa, username) == [u \in DOMAIN fa \ {username} |-> fa[u]]

\* the flag login passes to log_event on each of its three paths
login_log_flag(suspicious_before, suspicious_after) == suspicious_before

Login(username, password) ==
    /\ LET fa1 == prune_attempts(failed_attempts, username, now)
           suspicious == is_suspicious_login_attempt(failed_attempts, username, now)
           user == get_user_by_username(users, username)
       IN IF username = SUPER_ADMIN.username /\ password = SUPER_ADMIN.password
          THEN /\ logs' = log_event(logs, "Succesvolle login", username,
                                    Info("Rol: {}", <<SUPER_ADMIN.role>>, <<>>, <<>>),
                                    login_log_flag(suspicious, suspicious))
               /\ failed_attempts' = clear_attempts(fa1, username)
               /\ ret' = Ret("login", TRUE, SUPER_ADMIN.role, username, "")
          ELSE IF user # 0 /\ check_password_raises(password)
          THEN /\ logs' = logs
               /\ failed_attempts' = fa1
               /\ ret' = Raise("login", "UnicodeEncodeError")
          ELSE IF user # 0 /\ check_password(password, users[user].password_hash)
          THEN /\ logs' = log_event(logs, "Succesvolle login", username,
                                    Info("Rol: {}", <<users[user].role>>, <<>>, <<>>),
                                    login_log_flag(suspicious, suspicious))
               /\ failed_attempts' = clear_attempts(fa1, username)
               /\ ret' = Ret("login", TRUE, users[user].role, username, "")
          ELSE LET fa2 == record_failed_attempt(fa1, username, now)
                   again == is_suspicious_login_attempt(fa2, username, now)
               IN /\ failed_attempts' = prune_attempts(fa2, username, now)
                  /\ logs' = log_event(logs, "Mislukte login poging", Empty,
                                       IF again
                                       THEN Info("Gebruikersnaam: {} - Meerdere mislukte pogingen gedetecteerd",
                                                 <<>>, <<username>>, <<>>)
                                       ELSE Info("Gebruikersnaam: {}", <<>>, <<username>>, <<>>),
                                       login_log_flag(suspicious, again))
                  /\ ret' = Ret("login", FALSE, "", Empty, "")
    /\ UNCHANGED <<users, codes, fs, backups, fernet, now, spent>>

----------------------------------------------------------------------------
(* auth.py: register_user *)

RegisterUser(username, password, role, first_name, last_name, current_user_role, iv) ==
    IF ~can_create_user(current_user_role, role)
    THEN /\ ret' = Ret("register_user", FALSE, "", Empty, "Geen toestemming om {role} aan te maken")
         /\ UNCHANGED <<users, codes, logs, fs, backups, fernet, failed_attempts, now, spent>>
    ELSE IF ~validate_username(username)
    THEN /\ ret' = Ret("register_user", FALSE, "", Empty, "Ongeldige gebruikersnaam format")
         /\ UNCHANGED <<users, codes, logs, fs, backups, fernet, failed_attempts, now, spent>>
    ELSE IF ~validate_password(password)
    THEN /\ ret' = Ret("register_user", FALSE, "", Empty, "Wachtwoord voldoet niet aan eisen")
         /\ UNCHANGED <<users, codes, logs, fs, backups, fernet, failed_attempts, now, spent>>
    ELSE IF role \notin VALID_ROLES
    THEN /\ ret' = Ret("register_user", FALSE, "", Empty, "Ongeldige rol")
         /\ UNCHANGED <<users, codes, logs, fs, backups, fernet, failed_attempts, now, spent>>
    ELSE IF first_name = Empty \/ last_name = Empty
    THEN /\ ret' = Ret("register_user", FALSE, "", Empty, "Voor- en achternaam zijn verplicht")
         /\ UNCHANGED <<users, codes, logs, fs, backups, fernet, failed_attempts, now, spent>>
    ELSE /\ Len(users) < MaxUsers \/ ~add_user_ok(users, encrypt_data(username, iv))
         /\ LET password_hash == hash_password(password)
                result == add_user_ok(users, encrypt_data(username, iv))
            IN /\ users' = add_user(users, username, password_hash, role, first_name, last_name, iv)
               /\ IF result
                  THEN /\ logs' = log_event(logs, "Nieuwe gebruiker aangemaakt", username,
                                            Info("Rol: {}, Naam: {} {}", <<role>>, <<first_name, last_name>>, <<>>),
                                            FALSE)
                       /\ ret' = Ret("register_user", TRUE, "", Empty, "Gebruiker succesvol aangemaakt")
                  ELSE /\ logs' = log_event(logs, "Mislukte gebruiker aanmaak", Empty,
                                            Info("Gebruikersnaam: {} (mogelijk al in gebruik)", <<>>, <<username>>, <<>>),
                                            FALSE)
                       /\ ret' = Ret("register_user", FALSE, "", Empty, "Gebruiker aanmaken mislukt")
         /\ UNCHANGED <<codes, fs, backups, fernet, failed_attempts, now, spent>>

----------------------------------------------------------------------------
(* auth.py: reset_password and change_own_password; db.py: delete_user *)

\* "Temp" + 12 characters drawn at random + "1!"
TempPasswords ==
    {<<"T","e","m","p","k","3","Q","x","9","!","b","R","7","m","Z","2","1","!">>}

ResetPassword(username, current_user_role, temp_password) ==
    LET user == get_user_by_username(users, username)
    IN IF user = 0
       THEN /\ ret' = Ret("reset_password", FALSE, "", username, "Gebruiker niet gevonden")
            /\ UNCHANGED <<users, codes, logs, fs, backups, fernet, failed_attempts, now, spent>>
       ELSE IF ~can_manage_user(current_user_role, users[user].role)
       THEN /\ ret' = Ret("reset_password", FALSE, "", username,
                          "Geen toestemming om dit account te beheren")
            /\ UNCHANGED <<users, codes, logs, fs, backups, fernet, failed_attempts, now, spent>>
       ELSE /\ users' = reset_user_password(users, username, hash_password(temp_password))
            /\ logs' = log_event(logs, "Wachtwoord gereset", username,
                                 Info("Voor gebruiker: {}", <<>>, <<username>>, <<>>), FALSE)
            /\ ret' = [Ret("reset_password", TRUE, "", username, "") EXCEPT !.args = <<temp_password>>]
            /\ UNCHANGED <<codes, fs, backups, fernet, failed_attempts, now, spent>>

ChangeOwnPassword(username, old_password, new_password) ==
    LET user == get_user_by_username(users, username)
    IN IF username = SUPER_ADMIN.username
       THEN /\ ret' = Ret("change_own_password", FALSE, "", username,
                          "Super admin wachtwoord kan niet gewijzigd worden")
            /\ UNCHANGED <<users, codes, logs, fs, backups, fernet, failed_attempts, now, spent>>
       ELSE IF user = 0 \/ ~check_password(old_password, users[user].password_hash)
       THEN /\ logs' = log_event(logs, "Mislukte wachtwoord wijziging", username,
                                 Info("Verkeerd huidig wachtwoord", <<>>, <<>>, <<>>), FALSE)
            /\ ret' = Ret("change_own_password", FALSE, "", username, "Huidig wachtwoord is incorrect")
            /\ UNCHANGED <<users, codes, fs, backups, fernet, failed_attempts, now, spent>>
       ELSE IF ~validate_password(new_password)
       THEN /\ ret' = Ret("change_own_password", FALSE, "", username,
                          "Nieuw wachtwoord voldoet niet aan eisen")
            /\ UNCHANGED <<users, codes, logs, fs, backups, fernet, failed_attempts, now, spent>>
       ELSE /\ users' = reset_user_password(users, username, hash_password(new_password))
            /\ logs' = log_event(logs, "Wachtwoord succesvol gewijzigd", username, NoInfo, FALSE)
            /\ ret' = Ret("change_own_password", TRUE, "", username, "Wachtwoord succesvol gewijzigd")
            /\ UNCHANGED <<codes, fs, backups, fernet, failed_attempts, now, spent>>

DeleteUser(username) ==
    /\ users' = delete_user(users, username)
    /\ ret' = Ret("delete_user", find_user_row(users, username) # 0, "", username, "")
    /\ UNCHANGED <<codes, logs, fs, backups, fernet, failed_attempts, now, spent>>

----------------------------------------------------------------------------
(* db.py: the restore_codes table, a map from the code (its PRIMARY KEY) *)

NONE == "<None>"       \* Python's None passed as restore_code

\* get_restore_code: the row is returned only while used = 0
get_restore_code(tbl, code) ==
    IF code \in DOMAIN tbl /\ ~tbl[code].used THEN {tbl[code]} ELSE {}

add_restore_code_ok(tbl, code) == code \notin DOMAIN tbl

\* a slip: INSERT OR REPLACE, the row of a code already there is overwritten
add_restore_code_replacing(tbl, code, system_admin_username, backup_name) ==
    [c \in DOMAIN tbl \cup {code} |->
        IF c = code
        THEN [system_admin_username |-> system_admin_username,
              backup_name |-> backup_name, used |-> FALSE]
        ELSE tbl[c]]

add_restore_code(tbl, code, system_admin_username, backup_name) ==
    IF add_restore_code_ok(tbl, code)
    THEN tbl @@ (code :> [system_admin_username |-> system_admin_username,
                          backup_name |-> backup_name, used |-> FALSE])
    ELSE tbl

\* a slip: the UPDATE is left out
use_restore_code_skipped(tbl, code) == tbl

use_restore_code(tbl, code) ==
    IF code \in DOMAIN tbl THEN [tbl EXCEPT ![code].used = TRUE] ELSE tbl

\* use_restore_code's result: rowcount > 0 of UPDATE ... WHERE code=?
use_restore_code_ok(tbl, code) == code \in DOMAIN tbl

revoke_restore_code(tbl, code) == [c \in DOMAIN tbl \ {code} |-> tbl[c]]

----------------------------------------------------------------------------
(* backup.py *)

AutoPrefix == <<"a","u","t","o","_","v","o","o","r","_","r","e","s","t","o","r","e","_">>

\* backup_{timestamp}.zip is named by the second it is made in
backup_name_at(t) == t

\* what create_backup zips: data.db, fernet.key, salt.key, logs.db when present
Archive(username) ==
    [users |-> users, codes |-> codes, logs |-> logs,
     key |-> fs.key, salt |-> fs.salt, logs_db |-> fs.logs_db, creator |-> username]

\* backups/ after create_backup(username): a file of that name is overwritten
create_backup_files(username) ==
    IF backup_name_at(now) \in DOMAIN backups
    THEN [backups EXCEPT ![backup_name_at(now)] = Archive(username)]
    ELSE backups @@ (backup_name_at(now) :> Archive(username))

create_backup_log(tbl, username) ==
    log_event(tbl, "Backup succesvol aangemaakt", username,
              Info("Backup bestand: {}", <<>>, <<>>, <<backup_name_at(now)>>), FALSE)

CreateBackup(username) ==
    /\ backup_name_at(now) \in DOMAIN backups \/ Cardinality(DOMAIN backups) < MaxBackups
    /\ backups' = create_backup_files(username)
    /\ logs' = create_backup_log(logs, username)
    /\ ret' = RetOf("create_backup", TRUE, <<>>)
    /\ UNCHANGED <<users, codes, fs, fernet, failed_attempts, now, spent>>

\* a slip: a code passes whoever it was issued to and whatever backup it names
restore_denial_unbound(backup_filename, username, restore_code, is_super_admin) ==
    IF backup_filename \notin DOMAIN backups
    THEN {LogRow("Restore mislukt - backup niet gevonden", username,
                 Info("Backup: {}", <<>>, <<>>, <<backup_filename>>), FALSE)}
    ELSE IF is_super_admin THEN {}
    ELSE IF restore_code \in {NONE, ""}
    THEN {LogRow("Restore geweigerd - geen restore code", username,
                 Info("Backup: {}", <<>>, <<>>, <<backup_filename>>), FALSE)}
    ELSE IF get_restore_code(codes, restore_code) = {}
    THEN {LogRow("Restore geweigerd - ongeldige restore code", username,
                 Info("Code: {}", <<restore_code>>, <<>>, <<>>), TRUE)}
    ELSE {}

\* a slip: a caller without a code is let through
restore_denial_codeless(backup_filename, username, restore_code, is_super_admin) ==
    IF backup_filename \notin DOMAIN backups
    THEN {LogRow("Restore mislukt - backup niet gevonden", username,
                 Info("Backup: {}", <<>>, <<>>, <<backup_filename>>), FALSE)}
    ELSE {}

\* a slip: the admin a code is bound to is compared without regard to case
restore_denial_folded(backup_filename, username, restore_code, is_super_admin) ==
    IF backup_filename \notin DOMAIN backups
    THEN {LogRow("Restore mislukt - backup niet gevonden", username,
                 Info("Backup: {}", <<>>, <<>>, <<backup_filename>>), FALSE)}
    ELSE IF is_super_admin THEN {}
    ELSE IF restore_code \in {NONE, ""}
    THEN {LogRow("Restore geweigerd - geen restore code", username,
                 Info("Backup: {}", <<>>, <<>>, <<backup_filename>>), FALSE)}
    ELSE IF get_restore_code(codes, restore_code) = {}
    THEN {LogRow("Restore geweigerd - ongeldige restore code", username,
                 Info("Code: {}", <<restore_code>>, <<>>, <<>>), TRUE)}
    ELSE IF lower(codes[restore_code].system_admin_username) # lower(username)
    THEN {LogRow("Restore geweigerd - restore code niet voor deze gebruiker", username,
                 Info("Code voor: {}", <<>>, <<codes[restore_code].system_admin_username>>, <<>>), TRUE)}
    ELSE IF codes[restore_code].backup_name # backup_filename
    THEN {LogRow("Restore geweigerd - restore code niet voor deze backup", username,
                 Info("Code voor: {}", <<>>, <<>>, <<codes[restore_code].backup_name>>), FALSE)}
    ELSE {}

\* restore_backup up to its try block: the denial written, or none
restore_denial(backup_filename, username, restore_code, is_super_admin) ==
    IF backup_filename \notin DOMAIN backups
    THEN {LogRow("Restore mislukt - backup niet gevonden", username,
                 Info("Backup: {}", <<>>, <<>>, <<backup_filename>>), FALSE)}
    ELSE IF is_super_admin THEN {}
    ELSE IF restore_code \in {NONE, ""}
    THEN {LogRow("Restore geweigerd - geen restore code", username,
                 Info("Backup: {}", <<>>, <<>>, <<backup_filename>>), FALSE)}
    ELSE IF get_restore_code(codes, restore_code) = {}
    THEN {LogRow("Restore geweigerd - ongeldige restore code", username,
                 Info("Code: {}", <<restore_code>>, <<>>, <<>>), TRUE)}
    ELSE IF codes[restore_code].system_admin_username # username
    THEN {LogRow("Restore geweigerd - restore code niet voor deze gebruiker", username,
                 Info("Code voor: {}", <<>>, <<codes[restore_code].system_admin_username>>, <<>>), TRUE)}
    ELSE IF codes[restore_code].backup_name # backup_filename
    THEN {LogRow("Restore geweigerd - restore code niet voor deze backup", username,
                 Info("Code voor: {}", <<>>, <<>>, <<codes[restore_code].backup_name>>), FALSE)}
    ELSE {}

\* a slip: the restore goes ahead without its safety backup
safety_backup_skipped(username) == backups

\* backups/ after restore_backup's create_backup(auto_voor_restore_<username>)
safety_backup(username) == create_backup_files(AutoPrefix \o username)

RestoreBackup(backup_filename, username, restore_code, is_super_admin) ==
    LET denial == restore_denial(backup_filename, username, restore_code, is_super_admin)
    IN IF denial # {}
       THEN /\ logs' = Append(logs, CHOOSE row \in denial : TRUE)
            /\ ret' = RetOf("restore_backup", FALSE, <<>>)
            /\ UNCHANGED <<users, codes, fs, backups, fernet, failed_attempts, now, spent>>
       ELSE LET \* create_backup(auto_voor_restore_<username>): archive, then its log entry
                files == safety_backup(username)
                \* the archive read back; the safety backup may have replaced it
                zipf == files[backup_filename]
                consumed == ~is_super_admin /\ restore_code \notin {NONE, ""}
            IN /\ backup_name_at(now) \in DOMAIN backups \/ Cardinality(DOMAIN backups) < MaxBackups
               /\ backups' = files
               /\ users' = zipf.users
               /\ codes' = IF consumed THEN use_restore_code(zipf.codes, restore_code) ELSE zipf.codes
               /\ fs' = [fs EXCEPT !.key = zipf.key, !.salt = zipf.salt,
                                   !.logs_db = IF zipf.logs_db THEN zipf.logs_db ELSE fs.logs_db]
               /\ logs' = log_event(zipf.logs, "Backup succesvol hersteld", username,
                                    Info("Backup: {}, Auto-backup: {}", <<>>, <<>>,
                                         <<backup_filename, backup_name_at(now)>>), FALSE)
               /\ spent' = IF consumed THEN spent \cup {restore_code} ELSE spent
               /\ ret' = RetOf("restore_backup", TRUE, <<>>)
               /\ UNCHANGED <<fernet, failed_attempts, now>>

AddRestoreCode(code, system_admin_username, backup_name) ==
    /\ codes' = add_restore_code(codes, code, system_admin_username, backup_name)
    /\ ret' = RetOf("add_restore_code", add_restore_code_ok(codes, code), <<code>>)
    /\ UNCHANGED <<users, logs, fs, backups, fernet, failed_attempts, now, spent>>

\* the steps of restore_backup's try block at which a fault is injected:
\* ZipFile(backup_path, 'w') of the safety backup raising OSError, and
\* zipf.extract('fernet.key') raising BadZipFile before its target is opened
FaultSteps == {"create_backup", "fernet.key"}

\* restore_backup when the gates have passed and a step of the try block raises
RestoreBackupFault(backup_filename, username, restore_code, is_super_admin, step) ==
    /\ restore_denial(backup_filename, username, restore_code, is_super_admin) = {}
    /\ IF step = "create_backup"
       THEN \* create_backup logs its failure and raises; no archive was opened
            /\ logs' = log_event(
                          log_event(logs, "Backup aanmaken mislukt", AutoPrefix \o username,
                                    Info("Fout: {}", <<"OSError">>, <<>>, <<>>), FALSE),
                          "Restore mislukt", username,
                          Info("Backup: {}, Fout: {}", <<"Fout bij aanmaken backup: OSError">>,
                               <<>>, <<backup_filename>>), FALSE)
            /\ UNCHANGED <<users, codes, fs, backups>>
       ELSE \* the safety backup is made and data.db extracted; the key is not
            LET files == safety_backup(username)
                zipf == files[backup_filename]
            IN /\ backup_name_at(now) \in DOMAIN backups \/ Cardinality(DOMAIN backups) < MaxBackups
               /\ backups' = files
               /\ users' = zipf.users
               /\ codes' = zipf.codes
               /\ fs' = fs
               /\ logs' = log_event(zipf.logs, "Restore mislukt", username,
                                    Info("Backup: {}, Fout: {}", <<"BadZipFile">>,
                                         <<>>, <<backup_filename>>), FALSE)
    /\ ret' = RetOf("restore_backup", FALSE, <<step>>)
    /\ UNCHANGED <<fernet, failed_attempts, now, spent>>

UseRestoreCode(code) ==
    /\ codes' = use_restore_code(codes, code)
    /\ spent' = IF code \in DOMAIN codes THEN spent \cup {code} ELSE spent
    /\ ret' = RetOf("use_restore_code", use_restore_code_ok(codes, code), <<code>>)
    /\ UNCHANGED <<users, logs, fs, backups, fernet, failed_attempts, now>>

RevokeRestoreCode(code) ==
    /\ codes' = revoke_restore_code(codes, code)
    /\ spent' = IF code \in DOMAIN codes THEN spent \cup {code} ELSE spent
    /\ ret' = RetOf("revoke_restore_code", code \in DOMAIN codes, <<code>>)
    /\ UNCHANGED <<users, logs, fs, backups, fernet, failed_attempts, now>>

----------------------------------------------------------------------------
(* Time passing between two calls *)

Advance(d) ==
    /\ now + d <= MaxHalfWindows * HalfWindow
    /\ now' = now + d
    /\ UNCHANGED <<users, codes, logs, fs, backups, fernet, failed_attempts, spent, ret>>

----------------------------------------------------------------------------
(* The state after init_db() on an empty installation *)

Init ==
    /\ users = <<>>
    /\ codes = <<>>
    /\ logs = <<>>
    /\ fs = [key |-> 1, salt |-> 1, logs_db |-> FALSE, key_backup |-> 0]
    /\ backups = <<>>
    /\ fernet = 1
    /\ failed_attempts = <<>>
    /\ now = 0
    /\ spent = {}
    /\ ret = NoCall

----------------------------------------------------------------------------
(* Login and its failed-attempt window *)

AuthNames == {jdoe1234, super_admin_name}
AuthPasswords == {GoodPass, Admin_123}

NextAuth ==
    \/ /\ Len(logs) < MaxLog
       /\ \E u \in AuthNames, p \in AuthPasswords : Login(u, p)
    \/ /\ Len(logs) < MaxLog
       /\ \E iv \in IVs : RegisterUser(jdoe1234, GoodPass, "service_engineer", <<"J">>, <<"D">>, "system_admin", iv)
    \/ \E d \in {HalfWindow, WindowSeconds} : Advance(d)

SpecAuth == Init /\ [][NextAuth]_vars

----------------------------------------------------------------------------
(* Claims about login *)

LastLog == logs[Len(logs)]

\* the failures recorded for username within the trailing window
RecentFailures(username) ==
    IF username \in DOMAIN failed_attempts
    THEN Cardinality({i \in 1..Len(failed_attempts[username]) :
                         failed_attempts[username][i] > now - WindowSeconds})
    ELSE 0

RecordedFailures(fa, username) == IF username \in DOMAIN fa THEN Len(fa[username]) ELSE 0

StoredRole(username) == users[find_user_row(users, username)].role

C5_SuccessClearsHistory ==
    [][\A u \in AuthNames, p \in AuthPasswords :
        Login(u, p) =>
            /\ ret'.ok => u \notin DOMAIN failed_attempts'
            /\ logs'[Len(logs')].suspicious => RecordedFailures(failed_attempts, u) >= 3
            /\ ~ret'.ok => RecordedFailures(failed_attempts', u) <= RecordedFailures(failed_attempts, u) + 1
            /\ (ret.op = "login" /\ ret.ok /\ ret.username = u /\ ~ret'.ok) =>
                  /\ ~logs'[Len(logs')].suspicious
                  /\ RecordedFailures(failed_attempts', u) = 1
                  /\ ~is_suspicious_login_attempt(failed_attempts', u, now')]_vars

\* three failures, a success flagged from them, then one failure left unflagged
C5_Witness ==
    /\ ret.op = "login" /\ ~ret.ok
    /\ Len(logs) >= 5
    /\ LastLog.description = "Mislukte login poging" /\ ~LastLog.suspicious
    /\ logs[Len(logs) - 1].description = "Succesvolle login"
    /\ logs[Len(logs) - 1].suspicious
    /\ LastLog.additional_info.names = <<logs[Len(logs) - 1].username>>

----------------------------------------------------------------------------
(* The role tables, called on their own *)

RoleInputs == {"super_admin", "system_admin", "service_engineer", "SUPER_ADMIN", "guest", ""}
PermissionInputs == PERMISSIONS \cup {"delete_logs"}

CanCreateUserCall(current_role, target_role) ==
    /\ ret' = RetOf("can_create_user", can_create_user(current_role, target_role),
                    <<current_role, target_role>>)
    /\ UNCHANGED <<users, codes, logs, fs, backups, fernet, failed_attempts, now, spent>>

CanManageUserCall(current_role, target_role) ==
    /\ ret' = RetOf("can_manage_user", can_manage_user(current_role, target_role),
                    <<current_role, target_role>>)
    /\ UNCHANGED <<users, codes, logs, fs, backups, fernet, failed_attempts, now, spent>>

HasPermissionCall(role, permission) ==
    /\ ret' = RetOf("has_permission", has_permission(role, permission), <<role, permission>>)
    /\ UNCHANGED <<users, codes, logs, fs, backups, fernet, failed_attempts, now, spent>>

NextRoles ==
    \/ \E a \in RoleInputs, t \in RoleInputs : CanCreateUserCall(a, t)
    \/ \E a \in RoleInputs, t \in RoleInputs : CanManageUserCall(a, t)
    \/ \E r \in RoleInputs, c \in PermissionInputs : HasPermissionCall(r, c)

SpecRoles == Init /\ [][NextRoles]_vars

\* C7: can_create_user is true exactly for a super_admin actor (any target) and
\* for a system_admin actor with target service_engineer; false for
\* service_engineer and for any unrecognised actor role.
C7_CanCreateUserTable ==
    ret.op = "can_create_user" =>
        LET actor == ret.args[1]
            target == ret.args[2]
        IN /\ ret.ok <=> \/ actor = "super_admin"
                         \/ actor = "system_admin" /\ target = "service_engineer"
           /\ actor \notin {"super_admin", "system_admin"} => ~ret.ok

\* a system_admin asked for a service_engineer: allowed
C7_Witness ==
    /\ ret.op = "can_create_user"
    /\ ret.args = <<"system_admin", "service_engineer">>
    /\ ret.ok

----------------------------------------------------------------------------
(* Backups, restore codes and restores *)

MaxRestoreLog == 2     \* rows of the logs table, backup and restore runs
MaxRestoreClock == 1   \* half windows the clock runs to, backup and restore runs

Codes == {"K7Q2M9XA41ZP"}                          \* the codes issued
RestoreCodeInputs == Codes \cup {NONE, "", "B3N8T5RC60WD"}
Callers == {<<sysadmin01, FALSE>>, <<sysadmin02, FALSE>>, <<super_admin_name, TRUE>>}
MissingBackup == backup_name_at(-1)                \* a file that does not exist

NextRestore ==
    \/ /\ CreateBackup(super_admin_name)
       /\ Len(logs') <= MaxRestoreLog
    \/ \E b \in DOMAIN backups \cup {MissingBackup}, who \in Callers, c \in RestoreCodeInputs :
          /\ RestoreBackup(b, who[1], c, who[2])
          /\ Len(logs') <= MaxRestoreLog
    \/ \E c \in Codes \ spent, b \in DOMAIN backups : AddRestoreCode(c, sysadmin01, b)
    \/ \E c \in Codes : RevokeRestoreCode(c)
    \/ /\ now < MaxRestoreClock * HalfWindow
       /\ Advance(HalfWindow)

SpecRestore == Init /\ [][NextRestore]_vars

----------------------------------------------------------------------------
(* Claims about restore codes and refused restores *)

\* the rest of the installation a refused restore must leave alone
StorageUnchanged ==
    /\ users' = users /\ codes' = codes /\ fs' = fs /\ backups' = backups
    /\ fernet' = fernet /\ spent' = spent

\* the one entry a call has appended
Appended == IF Len(logs') = Len(logs) + 1 /\ SubSeq(logs', 1, Len(logs)) = logs
            THEN {logs'[Len(logs')]} ELSE {}

\* C1: a restore code consumed by a successful restore, or revoked, is never
\* returned by get_restore_code again, whatever is done afterwards.
C1_SpentCodeStaysInvalid ==
    \A c \in spent : get_restore_code(codes, c) = {}

\* C2: a restore by a caller who is not the super admin, with an unused code
\* issued to another admin or for another backup, returns False, leaves users,
\* restore codes (the used flag with them), key files and backups as they were,
\* and appends one entry: the refusal naming the mismatch, or, when the
\* requested file does not exist, the entry that the backup was not found.
C2_BoundCodeRefused ==
    [][\A b \in DOMAIN backups \cup {MissingBackup}, who \in Callers, c \in Codes :
        (/\ RestoreBackup(b, who[1], c, who[2])
         /\ ~who[2]
         /\ get_restore_code(codes, c) # {}
         /\ codes[c].system_admin_username # who[1] \/ codes[c].backup_name # b)
        => /\ ret'.op = "restore_backup" /\ ~ret'.ok
           /\ StorageUnchanged
           /\ ~codes'[c].used
           /\ \E row \in Appended :
                /\ row.username = who[1]
                /\ row.description =
                     IF b \notin DOMAIN backups
                     THEN "Restore mislukt - backup niet gevonden"
                     ELSE IF codes[c].system_admin_username # who[1]
                     THEN "Restore geweigerd - restore code niet voor deze gebruiker"
                     ELSE "Restore geweigerd - restore code niet voor deze backup"
                /\ row.suspicious <=>
                     (b \in DOMAIN backups /\ codes[c].system_admin_username # who[1])]_vars

\* the admin the code was issued to asks for another backup that exists
C2_Witness ==
    /\ ret.op = "restore_backup" /\ ~ret.ok
    /\ Len(logs) >= 1
    /\ LastLog.description = "Restore geweigerd - restore code niet voor deze backup"
    /\ LastLog.username = sysadmin01
    /\ \E c \in Codes : get_restore_code(codes, c) # {}
    /\ Cardinality(DOMAIN backups) >= 2

\* C3, as amended: a restore by a caller who is not the super admin, with no
\* code (None or the empty string), returns False and changes nothing but the
\* logs table, to which it appends the one refusal (or the entry that the
\* backup was not found).
C3_NoCodeRefused ==
    [][\A b \in DOMAIN backups \cup {MissingBackup}, who \in Callers, c \in {NONE, ""} :
        (RestoreBackup(b, who[1], c, who[2]) /\ ~who[2])
        => /\ ret'.op = "restore_backup" /\ ~ret'.ok
           /\ StorageUnchanged
           /\ \E row \in Appended :
                /\ row.username = who[1]
                /\ ~row.suspicious
                /\ row.description =
                     IF b \in DOMAIN backups
                     THEN "Restore geweigerd - geen restore code"
                     ELSE "Restore mislukt - backup niet gevonden"]_vars

\* a system admin was refused for presenting no code
C3_Witness ==
    /\ ret.op = "restore_backup" /\ ~ret.ok
    /\ Len(logs) >= 1
    /\ LastLog.description = "Restore geweigerd - geen restore code"
    /\ LastLog.username \in {sysadmin01, sysadmin02}
    /\ backups # <<>>

\* C3 as stated: the refused call modifies no file at all, the data store with
\* its logs table included.
C3_NoFileModified ==
    [][\A b \in DOMAIN backups \cup {MissingBackup}, who \in Callers, c \in {NONE, ""} :
        (RestoreBackup(b, who[1], c, who[2]) /\ ~who[2])
        => /\ ~ret'.ok
           /\ StorageUnchanged
           /\ logs' = logs]_vars

----------------------------------------------------------------------------
(* Accounts: registration, passwords, deletion, with backups restored *)

MaxAccountLog == 2     \* rows of the logs table, account runs
MaxAccountClock == 1   \* half windows the clock runs to, account runs
MaxAccountFailures == 1 \* failed logins on record per username, account runs

AccountNames == {jdoe1234, JDoe1234, super_admin_name}
ActorRoles == {"super_admin", "system_admin", "service_engineer"}
LoginInputs == {<<super_admin_name, Admin_123>>, <<super_admin_name, GoodPass>>, <<jdoe1234, GoodPass>>}

\* register_user calls, one or more for each way the call can end:
\* <<username, password, role, first_name, current_user_role>>
RegisterCalls ==
    {<<jdoe1234, GoodPass, "service_engineer", <<"J">>, "system_admin">>,
     <<JDoe1234, GoodPass, "system_admin", <<"J">>, "super_admin">>,
     <<jdoe1234, GoodPass, "system_admin", <<"J">>, "system_admin">>,
     <<jdoe1234, GoodPass, "service_engineer", <<"J">>, "service_engineer">>,
     <<super_admin_name, GoodPass, "system_admin", <<"J">>, "super_admin">>,
     <<bob, GoodPass, "service_engineer", <<"J">>, "system_admin">>,
     <<jdoe1234, WeakPass, "service_engineer", <<"J">>, "system_admin">>,
     <<jdoe1234, GoodPass, "guest", <<"J">>, "super_admin">>,
     <<jdoe1234, GoodPass, "service_engineer", Empty, "system_admin">>}

NextAccounts ==
    \/ \E c \in RegisterCalls, iv \in IVs :
          /\ RegisterUser(c[1], c[2], c[3], c[4], <<"D">>, c[5], iv)
          /\ Len(logs') <= MaxAccountLog
    \/ \E u \in AccountNames, a \in ActorRoles, t \in TempPasswords :
          /\ ResetPassword(u, a, t)
          /\ Len(logs') <= MaxAccountLog
    \/ \E u \in AccountNames, o \in {GoodPass, WeakPass}, n \in {OtherPass, WeakPass} :
          /\ ChangeOwnPassword(u, o, n)
          /\ Len(logs') <= MaxAccountLog
    \/ \E u \in AccountNames : DeleteUser(u)
    \/ \E l \in LoginInputs :
          /\ RecordedFailures(failed_attempts, l[1]) < MaxAccountFailures
          /\ Login(l[1], l[2])
          /\ Len(logs') <= MaxAccountLog
    \/ /\ CreateBackup(super_admin_name)
       /\ Len(logs') <= MaxAccountLog
    \/ \E b \in DOMAIN backups :
          /\ RestoreBackup(b, super_admin_name, NONE, TRUE)
          /\ Len(logs') <= MaxAccountLog
    \/ /\ now < MaxAccountClock * HalfWindow
       /\ Advance(HalfWindow)

SpecAccounts == Init /\ [][NextAccounts]_vars

----------------------------------------------------------------------------
(* Claims about accounts and the audit log *)

\* C6: the users table holds at most one account per username, compared
\* case-insensitively.
C6_OneAccountPerUsername ==
    \A i, j \in 1..Len(users) :
        text_lower(decrypt_data(users[i].username)) = text_lower(decrypt_data(users[j].username))
            => i = j

\* C8: whatever accounts were registered, reset, changed, deleted or restored,
\* login('super_admin', 'Admin_123?') succeeds with role super_admin, and
\* reset_password and change_own_password for 'super_admin' fail and leave the
\* users table alone.
C8_SuperAdminImmutable ==
    [][/\ Login(SUPER_ADMIN.username, SUPER_ADMIN.password) =>
            /\ ret'.op = "login" /\ ret'.ok
            /\ ret'.role = "super_admin" /\ ret'.username = SUPER_ADMIN.username
       /\ \A a \in ActorRoles, t \in TempPasswords :
            ResetPassword(SUPER_ADMIN.username, a, t) =>
                /\ ret'.op = "reset_password" /\ ~ret'.ok
                /\ users' = users
       /\ \A o \in {GoodPass, WeakPass}, n \in {OtherPass, WeakPass} :
            ChangeOwnPassword(SUPER_ADMIN.username, o, n) =>
                /\ ret'.op = "change_own_password" /\ ~ret'.ok
                /\ users' = users]_vars

\* with an account stored, a super admin's reset of 'super_admin' was refused
C8_Witness ==
    /\ ret.op = "reset_password" /\ ~ret.ok
    /\ ret.username = SUPER_ADMIN.username
    /\ Len(users) >= 1
    /\ backups # <<>>

\* C9: every call of register_user appends exactly one entry to the logs table.
C9_RegisterLogsOnce ==
    [][\A c \in RegisterCalls, iv \in IVs :
        RegisterUser(c[1], c[2], c[3], c[4], <<"D">>, c[5], iv) => Appended # {}]_vars

\* C10: every call of reset_password, change_own_password, create_backup and
\* restore_backup appends exactly one entry to the logs table.
C10_EachCallLogsOnce ==
    [][/\ \A u \in AccountNames, a \in ActorRoles, t \in TempPasswords :
            ResetPassword(u, a, t) => Appended # {}
       /\ \A u \in AccountNames, o \in {GoodPass, WeakPass}, n \in {OtherPass, WeakPass} :
            ChangeOwnPassword(u, o, n) => Appended # {}
       /\ CreateBackup(super_admin_name) => Appended # {}
       /\ \A b \in DOMAIN backups :
            RestoreBackup(b, super_admin_name, NONE, TRUE) => Appended # {}]_vars

----------------------------------------------------------------------------
(* Claims about the audit log as a whole *)

\* C11: the logs table is append-only: every entry written is still there,
\* unchanged and in its place, after any later call.
C11_LogAppendOnly ==
    [][\A i \in 1..Len(logs) : i <= Len(logs') /\ logs'[i] = logs[i]]_vars

----------------------------------------------------------------------------
(* Claims about the restore-code protocol *)

\* C12: with an unused code issued for admin A and backup B, a restore with
\* that code by another admin is refused, a restore by A of another backup is
\* refused, and a restore by A of B succeeds, after which get_restore_code
\* returns nothing for the code.
C12_CodeScenario ==
    [][\A b \in DOMAIN backups \cup {MissingBackup}, who \in Callers, c \in Codes :
        (/\ RestoreBackup(b, who[1], c, who[2])
         /\ ~who[2]
         /\ get_restore_code(codes, c) # {})
        => /\ codes[c].system_admin_username # who[1] => ~ret'.ok
           /\ codes[c].backup_name # b => ~ret'.ok
           /\ (/\ codes[c].system_admin_username = who[1]
               /\ codes[c].backup_name = b
               /\ b \in DOMAIN backups)
              => /\ ret'.op = "restore_backup" /\ ret'.ok
                 /\ get_restore_code(codes', c) = {}
                 /\ users' = create_backup_files(AutoPrefix \o who[1])[b].users]_vars

\* the admin the code was issued to has restored the backup it was issued for
C12_Witness ==
    /\ ret.op = "restore_backup" /\ ret.ok
    /\ Len(logs) >= 1
    /\ LastLog.description = "Backup succesvol hersteld"
    /\ LastLog.username = sysadmin01
    /\ \E c \in Codes : c \in spent /\ get_restore_code(codes, c) = {}

----------------------------------------------------------------------------
(* Claims about failed logins *)

----------------------------------------------------------------------------
(* Claims about password changes *)

\* the other columns of every row, and every other row's hash, are kept
OnlyHashChanged(i) ==
    /\ Len(users') = Len(users)
    /\ \A k \in 1..Len(users) :
         IF k = i THEN users'[k] = [users[k] EXCEPT !.password_hash = users'[k].password_hash]
         ELSE users'[k] = users[k]

\* C14: reset_password fails and leaves the users table alone when no account
\* of that name exists or the actor's role may not manage the account's role
\* (super_admin: any; system_admin: service_engineer only); otherwise it
\* overwrites that account's hash, and the temporary password it returns
\* verifies against the new hash.
C14_ResetPassword ==
    [][\A u \in AccountNames, a \in ActorRoles, t \in TempPasswords :
        ResetPassword(u, a, t) =>
            LET i == find_user_row(users, u)
                allowed == \/ a = "super_admin"
                           \/ (a = "system_admin" /\ users[i].role = "service_engineer")
            IN IF i = 0 \/ ~allowed
               THEN /\ ret'.op = "reset_password" /\ ~ret'.ok
                    /\ users' = users
               ELSE /\ ret'.op = "reset_password" /\ ret'.ok
                    /\ OnlyHashChanged(i)
                    /\ users'[i].password_hash = hash_password(ret'.args[1])
                    /\ check_password(ret'.args[1], users'[i].password_hash)
                    /\ ~check_password(GoodPass, users'[i].password_hash)]_vars

\* a system_admin has reset a service_engineer's password
C14_Witness ==
    /\ ret.op = "reset_password" /\ ret.ok
    /\ find_user_row(users, ret.username) # 0
    /\ users[find_user_row(users, ret.username)].role = "service_engineer"
    /\ check_password(ret.args[1], users[find_user_row(users, ret.username)].password_hash)
    /\ Len(logs) >= 1 /\ LastLog.description = "Wachtwoord gereset"

----------------------------------------------------------------------------
(* Claims about the detection window *)

\* every failure on record for username is 15 minutes old or older
AllStale(username) ==
    /\ RecordedFailures(failed_attempts, username) >= 1
    /\ RecentFailures(username) = 0

\* C16: when every failure recorded for a username is 15 minutes old or older,
\* the next login of that username drops them all: its entry is not flagged,
\* and the history afterwards holds that attempt alone (on failure) or nothing
\* (on success); no entry is flagged with fewer than 3 failures inside the
\* window, so 3 new failures are needed before the next flag.
C16_StaleFailuresPruned ==
    [][\A u \in AuthNames, p \in AuthPasswords :
        Login(u, p) =>
            /\ AllStale(u) =>
                 /\ \E row \in Appended : ~row.suspicious
                 /\ ret'.ok => u \notin DOMAIN failed_attempts'
                 /\ ~ret'.ok => failed_attempts'[u] = <<now>>
                 /\ ~is_suspicious_login_attempt(failed_attempts', u, now')
            /\ (\E row \in Appended : row.suspicious) => RecentFailures(u) >= SUSPICIOUS_COUNT]_vars

\* three failures, a gap of more than 15 minutes, and a fourth failure that is
\* not flagged and stands alone in the history
C16_Witness ==
    /\ ret.op = "login" /\ ~ret.ok
    /\ Len(logs) = 4
    /\ \A k \in 1..4 : /\ logs[k].description = "Mislukte login poging"
                       /\ logs[k].additional_info.names = <<jdoe1234>>
                       /\ ~logs[k].suspicious
    /\ now > WindowSeconds
    /\ failed_attempts[jdoe1234] = <<now>>

----------------------------------------------------------------------------
(* Claims about the role tables *)

TenCapabilities ==
    {"manage_users", "manage_system_admins", "manage_service_engineers", "manage_travellers",
     "manage_scooters", "view_logs", "create_backup", "restore_backup",
     "generate_restore_codes", "revoke_restore_codes"}

\* C18: has_permission grants a service_engineer manage_scooters and none of
\* the other nine capabilities, grants a super_admin all ten, and answers
\* false for every unknown role and every unknown capability.
C18_PermissionTable ==
    /\ Cardinality(TenCapabilities) = 10
    /\ \A c \in PermissionInputs :
         /\ has_permission("service_engineer", c) <=> c = "manage_scooters"
         /\ has_permission("super_admin", c) <=> c \in TenCapabilities
    /\ ret.op = "has_permission" =>
         LET role == ret.args[1]
             capability == ret.args[2]
         IN /\ role = "service_engineer" => (ret.ok <=> capability = "manage_scooters")
            /\ role = "super_admin" => (ret.ok <=> capability \in TenCapabilities)
            /\ role \notin {"super_admin", "system_admin", "service_engineer"} => ~ret.ok
            /\ capability \notin TenCapabilities => ~ret.ok

\* a service_engineer asked for manage_scooters: granted
C18_Witness ==
    /\ ret.op = "has_permission"
    /\ ret.args = <<"service_engineer", "manage_scooters">>
    /\ ret.ok

----------------------------------------------------------------------------
(* encryption.py called on its own: encrypt_data, decrypt_data and          *)
(* rotate_encryption_key                                                    *)

MaxKeys == 3           \* keys made by the end of a run, encryption runs

Accented == <<"T", "U+00E9", "U+4E2D", " ", "U+1F680", "!">>
Rocket == <<"U+1F680">>
LoneSurrogate == <<"a", "U+D800">>
Texts == {Empty, bob, jdoe1234, Admin_123, WeakPass, Accented, Rocket, LoneSurrogate}

\* Fernet.encrypt under a given key
TokenOf(data, key, iv) == [enc |-> TRUE, pt |-> utf8_encode(data), key |-> key, iv |-> iv]

\* what a column may hold: plain legacy text, or a token made under the
\* current key or under a key since replaced
StoredValues ==
    {P(x) : x \in Texts}
    \cup {TokenOf(x, k, iv) : x \in Texts \ {Empty, LoneSurrogate}, k \in 1..fernet, iv \in IVs}

EncryptCall(data, iv) ==
    /\ ret' = RetOf("encrypt_data", TRUE, <<P(data), encrypt_data(data, iv)>>)
    /\ UNCHANGED <<users, codes, logs, fs, backups, fernet, failed_attempts, now, spent>>

DecryptCall(encrypted_data) ==
    /\ ret' = RetOf("decrypt_data", TRUE, <<encrypted_data, decrypt_data(encrypted_data)>>)
    /\ UNCHANGED <<users, codes, logs, fs, backups, fernet, failed_attempts, now, spent>>

\* the key file is copied to fernet.key.backup, a new key is written and loaded
RotateEncryptionKey ==
    /\ fs' = [fs EXCEPT !.key_backup = fs.key, !.key = fernet + 1]
    /\ fernet' = fernet + 1
    /\ ret' = RetOf("rotate_encryption_key", TRUE, <<>>)
    /\ UNCHANGED <<users, codes, logs, backups, failed_attempts, now, spent>>

NextCrypto ==
    \/ \E x \in Texts, iv \in IVs : EncryptCall(x, iv)
    \/ \E v \in StoredValues : DecryptCall(v)
    \/ /\ ret.op = "encrypt_data"
       /\ DecryptCall(ret.args[2])
    \/ /\ fernet < MaxKeys
       /\ RotateEncryptionKey

SpecCrypto == Init /\ [][NextCrypto]_vars

----------------------------------------------------------------------------
(* Claims about the archives in backups/ *)

\* C21: an archive is immutable once created: whatever is called later, a
\* create_backup or the safety backup of a restore included, every name in
\* backups/ still holds the contents it was created with.
C21_BackupImmutable ==
    [][\A n \in DOMAIN backups : n \in DOMAIN backups' /\ backups'[n] = backups[n]]_vars

----------------------------------------------------------------------------
(* login called with whatever can be typed: either casing of a name, the   *)
(* empty string, a password holding a character that has no encoding       *)

MaxLoginLog == 3       \* rows of the logs table, runs of typed logins
MaxLoginClock == 1     \* half windows the clock runs to, runs of typed logins

\* "a" followed by a lone surrogate, as input() gives for a byte that is no UTF-8
Undecodable == <<"a", "U+D800">>
TypedNames == {jdoe1234, JDoe1234, Empty}
TypedPasswords == {GoodPass, Empty, Undecodable}

NextLogin ==
    \/ \E u \in TypedNames, p \in TypedPasswords :
          /\ Login(u, p)
          /\ Len(logs') <= MaxLoginLog
    \/ \E iv \in IVs :
          /\ RegisterUser(jdoe1234, GoodPass, "service_engineer", <<"J">>, <<"D">>, "system_admin", iv)
          /\ Len(logs') <= MaxLoginLog
    \/ /\ now < MaxLoginClock * HalfWindow
       /\ Advance(HalfWindow)

SpecLogin == Init /\ [][NextLogin]_vars

\* C22: login never raises: whatever username and password it is given, it
\* returns (role, username) or None.
C22_LoginNeverRaises ==
    ret.op = "login" => ~Raised

----------------------------------------------------------------------------
(* Claims about the steps of a restore *)

\* live storage holds what the archive holds
RestoredFrom(zipf) ==
    /\ users' = zipf.users
    /\ fs'.key = zipf.key /\ fs'.salt = zipf.salt
    /\ SubSeq(logs', 1, Len(logs') - 1) = zipf.logs

----------------------------------------------------------------------------
(* register_user called with every combination of good and bad arguments *)

MaxRegisterLog == 2    \* rows of the logs table, registration runs

RegisterNames == {jdoe1234, bob}
RegisterPasswords == {GoodPass, WeakPass}
RegisterRoles == {"service_engineer", "system_admin", "guest"}
RegisterFullNames == {<<<<"J">>, <<"D">>>>, <<Empty, <<"D">>>>, <<<<"J">>, Empty>>}

NextRegister ==
    \/ \E u \in RegisterNames, p \in RegisterPasswords, r \in RegisterRoles,
          n \in RegisterFullNames, a \in ActorRoles, iv \in IVs :
          /\ RegisterUser(u, p, r, n[1], n[2], a, iv)
          /\ Len(logs') <= MaxRegisterLog
    \/ \E u \in RegisterNames : DeleteUser(u)

SpecRegister == Init /\ [][NextRegister]_vars

\* C24: register_user checks permission, username shape, password strength,
\* role validity and non-empty names in that order and reports the first check
\* that fails, whatever else is wrong with the call; no account is inserted,
\* and none is changed, unless all five pass.
C24_FirstFailureWins ==
    [][\A u \in RegisterNames, p \in RegisterPasswords, r \in RegisterRoles,
          n \in RegisterFullNames, a \in ActorRoles, iv \in IVs :
        RegisterUser(u, p, r, n[1], n[2], a, iv) =>
            LET permitted == \/ a = "super_admin"
                             \/ (a = "system_admin" /\ r = "service_engineer")
                failure ==
                    IF ~permitted THEN "Geen toestemming om {role} aan te maken"
                    ELSE IF u = bob THEN "Ongeldige gebruikersnaam format"
                    ELSE IF p = WeakPass THEN "Wachtwoord voldoet niet aan eisen"
                    ELSE IF r = "guest" THEN "Ongeldige rol"
                    ELSE IF n[1] = Empty \/ n[2] = Empty THEN "Voor- en achternaam zijn verplicht"
                    ELSE ""
            IN /\ ret'.op = "register_user"
               /\ failure # "" => /\ ~ret'.ok
                                  /\ ret'.msg = failure
                                  /\ users' = users
               /\ failure = "" => ret'.msg \in {"Gebruiker succesvol aangemaakt",
                                                "Gebruiker aanmaken mislukt"}
               /\ users' # users => /\ failure = ""
                                    /\ ret'.ok
                                    /\ users' = add_user(users, u, hash_password(p), r, n[1], n[2], iv)]_vars

\* with an account stored, a call that is wrong in everything from the
\* username on was refused for its username
C24_Witness ==
    /\ ret.op = "register_user" /\ ~ret.ok
    /\ ret.msg = "Ongeldige gebruikersnaam format"
    /\ Len(users) = 1
    /\ Len(logs) = 1

----------------------------------------------------------------------------
(* Claims about the flag of a failed login *)

\* C25: the entry of a failed login carries the flag recomputed after the
\* attempt was recorded: it is suspicious exactly when the failures within the
\* window, this one included, number 3 or more, so the third failure in a row
\* is itself flagged.
C25_FlagCountsThisAttempt ==
    [][\A u \in AuthNames, p \in AuthPasswords :
        (Login(u, p) /\ ~ret'.ok) =>
            \E row \in Appended :
                row.suspicious <=> RecentFailures(u) + 1 >= SUSPICIOUS_COUNT]_vars

----------------------------------------------------------------------------
(* db.py's restore-code functions called on their own *)

IssuedCodes == {"K7Q2M9XA41ZP", "B3N8T5RC60WD"}
BoundAdmins == {sysadmin01, sysadmin02}
BoundBackups == {backup_name_at(0), backup_name_at(HalfWindow)}

NextCodes ==
    \/ \E c \in IssuedCodes, a \in BoundAdmins, b \in BoundBackups : AddRestoreCode(c, a, b)
    \/ \E c \in IssuedCodes : UseRestoreCode(c)
    \/ \E c \in IssuedCodes : RevokeRestoreCode(c)

SpecCodes == Init /\ [][NextCodes]_vars

\* C26: consuming a code is not repeatable: use_restore_code of a code that is
\* already marked used does not report success.
C26_UseNotRepeatable ==
    [][\A c \in IssuedCodes :
        (UseRestoreCode(c) /\ c \in DOMAIN codes /\ codes[c].used) => ~ret'.ok]_vars

\* C27: add_restore_code with a code that is already in the table, used or
\* unused, returns False and leaves the table, that row's admin, backup and
\* used flag with it, as it was.
C27_DuplicateCodeRefused ==
    [][\A c \in IssuedCodes, a \in BoundAdmins, b \in BoundBackups :
        (AddRestoreCode(c, a, b) /\ c \in DOMAIN codes)
        => /\ ret'.op = "add_restore_code" /\ ~ret'.ok
           /\ codes'[c] = codes[c]
           /\ codes' = codes]_vars

\* a used code bound to one admin and backup was offered again for the other
\* admin and backup, and was refused
C27_Witness ==
    /\ ret.op = "add_restore_code" /\ ~ret.ok
    /\ ret.args[1] \in DOMAIN codes
    /\ codes[ret.args[1]].used
    /\ codes[ret.args[1]].system_admin_username = sysadmin01
    /\ \E c \in DOMAIN codes : ~codes[c].used

----------------------------------------------------------------------------
(* Restores in which a step fails after the gates have passed *)

MaxFaultLog == 3       \* rows of the logs table, runs with a failing restore

FaultCallers == {<<sysadmin01, FALSE>>, <<super_admin_name, TRUE>>}

NextRestoreFault ==
    \/ /\ CreateBackup(super_admin_name)
       /\ Len(logs') <= MaxFaultLog
    \/ \E b \in DOMAIN backups, who \in FaultCallers, c \in Codes \cup {NONE}, step \in FaultSteps :
          /\ RestoreBackupFault(b, who[1], c, who[2], step)
          /\ Len(logs') <= MaxFaultLog
    \/ \E b \in DOMAIN backups, who \in FaultCallers, c \in Codes \cup {NONE} :
          /\ RestoreBackup(b, who[1], c, who[2])
          /\ Len(logs') <= MaxFaultLog
    \/ \E c \in Codes \ spent, b \in DOMAIN backups : AddRestoreCode(c, sysadmin01, b)
    \/ /\ now < MaxRestoreClock * HalfWindow
       /\ Advance(HalfWindow)

SpecRestoreFault == Init /\ [][NextRestoreFault]_vars

\* C28: a restore that returns False because a step failed after the gates
\* passed leaves users, restore codes, key and salt files as they were, keeps
\* every log entry written before, and appends the entry of the failure.
C28_FailedRestoreChangesNothing ==
    [][\A b \in DOMAIN backups, who \in FaultCallers, c \in Codes \cup {NONE}, step \in FaultSteps :
        RestoreBackupFault(b, who[1], c, who[2], step)
        => /\ ~ret'.ok
           /\ users' = users /\ codes' = codes /\ fs' = fs
           /\ Len(logs') > Len(logs)
           /\ SubSeq(logs', 1, Len(logs)) = logs
           /\ logs'[Len(logs')].description = "Restore mislukt"]_vars

----------------------------------------------------------------------------
(* login under either letter-casing of one account's name *)

MaxCasingLog == 5      \* rows of the logs table, runs with two casings

CasingNames == {jdoe1234, JDoe1234}
CasingPasswords == {GoodPass, WeakPass}

NextCasing ==
    \/ \E u \in CasingNames, p \in CasingPasswords :
          /\ Login(u, p)
          /\ Len(logs') <= MaxCasingLog
    \/ \E iv \in IVs :
          /\ RegisterUser(jdoe1234, GoodPass, "service_engineer", <<"J">>, <<"D">>, "system_admin", iv)
          /\ Len(logs') <= MaxCasingLog
    \/ /\ now < MaxLoginClock * HalfWindow
       /\ Advance(HalfWindow)

SpecCasing == Init /\ [][NextCasing]_vars

\* C29: the failed-attempt history is kept under the username exactly as it
\* was typed, while the account is found whatever the casing: a login under
\* one casing reads, extends and clears the history of that casing only, its
\* flag counts the failures of that casing only, and the history kept under
\* the other casing of the same account stays as it was.
C29_WindowKeyedByTypedName ==
    [][\A u \in CasingNames, p \in CasingPasswords :
        Login(u, p) =>
            /\ lower(u) = lower(jdoe1234)
            /\ (find_user_row(users, jdoe1234) # 0 /\ p = GoodPass) => ret'.ok
            /\ \A v \in CasingNames \ {u} :
                 /\ v \in DOMAIN failed_attempts' <=> v \in DOMAIN failed_attempts
                 /\ v \in DOMAIN failed_attempts => failed_attempts'[v] = failed_attempts[v]
            /\ \E row \in Appended : row.suspicious <=> RecentFailures(u) >= SUSPICIOUS_COUNT
            /\ ret'.ok => u \notin DOMAIN failed_attempts'
            /\ ~ret'.ok => RecordedFailures(failed_attempts', u) = RecentFailures(u) + 1]_vars

\* three failures typed as jdoe1234, then a success typed as JDoe1234 on the
\* same account: it is not flagged and the three failures are still on record
C29_Witness ==
    /\ ret.op = "login" /\ ret.ok /\ ret.username = JDoe1234
    /\ Len(users) = 1
    /\ LastLog.description = "Succesvolle login" /\ ~LastLog.suspicious
    /\ JDoe1234 \notin DOMAIN failed_attempts
    /\ jdoe1234 \in DOMAIN failed_attempts
    /\ Len(failed_attempts[jdoe1234]) = 3

----------------------------------------------------------------------------
(* A session: login, then a restore under the name and role login returned *)

MaxSessionLog == 4     \* rows of the logs table, session runs

SysAdmin01 == <<"S","y","s","A","d","m","i","n","0","1">>
SessionNames == {sysadmin01, SysAdmin01}

\* the usernames the menu lists for a new code: the stored ones, decrypted
StoredSystemAdmins ==
    {decrypt_data(users[i].username).pt :
        i \in {k \in 1..Len(users) : users[k].role = "system_admin"}}

\* main.py: restore_backup(selected_backup, username, restore_code, role == 'super_admin')
SessionRestore(backup_filename, restore_code) ==
    /\ ret.op = "login" /\ ret.ok
    /\ RestoreBackup(backup_filename, ret.username, restore_code, ret.role = "super_admin")

NextSession ==
    \/ \E iv \in {CHOOSE i \in IVs : TRUE} :     \* one account, whatever its token's IV
          /\ RegisterUser(sysadmin01, GoodPass, "system_admin", <<"J">>, <<"D">>, "super_admin", iv)
          /\ Len(logs') <= MaxSessionLog
    \/ \E u \in SessionNames :
          /\ Login(u, GoodPass)
          /\ Len(logs') <= MaxSessionLog
    \/ /\ CreateBackup(super_admin_name)
       /\ Len(logs') <= MaxSessionLog
    \/ \E c \in Codes \ spent, a \in StoredSystemAdmins, b \in DOMAIN backups : AddRestoreCode(c, a, b)
    \/ \E b \in DOMAIN backups, c \in Codes :
          /\ SessionRestore(b, c)
          /\ Len(logs') <= MaxSessionLog
    \/ /\ now < MaxRestoreClock * HalfWindow
       /\ Advance(HalfWindow)

SpecSession == Init /\ [][NextSession]_vars

\* C30: login returns the username as it was typed, and restore_backup
\* compares the admin a code is bound to with the actor character by
\* character: a system admin logged in under another casing than the stored
\* name the code was bound to is refused the restore, nothing but the log
\* changes, the code stays unused, and the refusal is logged as suspicious.
C30_OtherCasingDenied ==
    [][/\ \A u \in SessionNames :
            (Login(u, GoodPass) /\ ret'.ok) => ret'.username = u
       /\ \A b \in DOMAIN backups, c \in Codes :
            (/\ SessionRestore(b, c)
             /\ get_restore_code(codes, c) # {}
             /\ codes[c].system_admin_username # ret.username
             /\ lower(codes[c].system_admin_username) = lower(ret.username))
            => /\ ret'.op = "restore_backup" /\ ~ret'.ok
               /\ StorageUnchanged
               /\ get_restore_code(codes', c) # {} /\ ~codes'[c].used
               /\ \E row \in Appended :
                    /\ row.description = "Restore geweigerd - restore code niet voor deze gebruiker"
                    /\ row.username = ret.username
                    /\ row.suspicious]_vars

\* SysAdmin01 logged in and was refused a restore with the code of sysadmin01
C30_Witness ==
    /\ ret.op = "restore_backup" /\ ~ret.ok
    /\ Len(logs) >= 2
    /\ LastLog.description = "Restore geweigerd - restore code niet voor deze gebruiker"
    /\ LastLog.username = SysAdmin01 /\ LastLog.suspicious
    /\ logs[Len(logs) - 1].description = "Succesvolle login"
    /\ logs[Len(logs) - 1].username = SysAdmin01
    /\ \E c \in Codes : /\ get_restore_code(codes, c) # {}
                        /\ codes[c].system_admin_username = sysadmin01
                        /\ codes[c].backup_name \in DOMAIN backups

====
